---- MODULE Spec2Model ----
(***************************************************************************)
(* Model of BoatManagement.c: the marina fleet kept in main()'s array      *)
(* `fleet`, loaded from a CSV file, edited by the menu commands            *)
(* I/A/R/P/M and written back on X.                                        *)
(*                                                                         *)
(* Text is modelled character by character: a C string is a sequence of    *)
(* one-character strings (without the terminating NUL).  Numbers held in   *)
(* a float (lengthFt, outstandingFees, a payment) are fixed-point          *)
(* integers in thousandths; the inputs of the model have at most three     *)
(* fractional digits, so every sum and product the program forms is exact  *)
(* in this representation.                                                 *)
(***************************************************************************)
EXTENDS Integers, Sequences, FiniteSets, TLC

(***************************************************************************)
(* Bounds of the model.                                                    *)
(***************************************************************************)
\* #define MAX_VESSELS 120 (line 19), scaled down so that a full fleet is
\* reached by the enumerated inputs.
MAX_VESSELS == 3
\* Number of menu commands read in one session before the exit command.
MaxCommands == 2
\* A data file has at most MAX_VESSELS + MaxFileExtra lines.
MaxFileExtra == 3

(***************************************************************************)
(* Program constants.                                                      *)
(***************************************************************************)
MAX_VESSEL_NAME_LEN == 128
TRAILER_TAG_LEN == 9
\* Rates in thousandths of a dollar per foot.
RATE_SLIP == 12500
RATE_LAND == 14000
RATE_TRAILER == 25000
RATE_STORAGE == 11200
\* Fixed-point unit: one foot or one dollar is Scale thousandths.
Scale == 10 * 10 * 10

(***************************************************************************)
(* Characters and <ctype.h>.                                               *)
(***************************************************************************)
LowerLetters ==
  <<"a","b","c","d","e","f","g","h","i","j","k","l","m",
    "n","o","p","q","r","s","t","u","v","w","x","y","z">>
UpperLetters ==
  <<"A","B","C","D","E","F","G","H","I","J","K","L","M",
    "N","O","P","Q","R","S","T","U","V","W","X","Y","Z">>
DigitChars == <<"0","1","2","3","4","5","6","7","8","9">>

IndexOf(seq, c) == CHOOSE i \in 1..Len(seq) : seq[i] = c
InSeq(seq, c) == \E i \in 1..Len(seq) : seq[i] = c

isupper(c) == InSeq(UpperLetters, c)
isdigit(c) == InSeq(DigitChars, c)
isspace(c) == c = " "
tolower(c) == IF isupper(c) THEN LowerLetters[IndexOf(UpperLetters, c)] ELSE c
toupper(c) == IF InSeq(LowerLetters, c) THEN UpperLetters[IndexOf(LowerLetters, c)] ELSE c

\* The ASCII code of a character of the model's alphabet.
CharCode(c) ==
  IF isdigit(c) THEN 47 + IndexOf(DigitChars, c)
  ELSE IF isupper(c) THEN 64 + IndexOf(UpperLetters, c)
  ELSE IF InSeq(LowerLetters, c) THEN 96 + IndexOf(LowerLetters, c)
  ELSE IF c = " " THEN 32
  ELSE IF c = "," THEN 44
  ELSE IF c = "-" THEN 45
  ELSE IF c = "+" THEN 43
  ELSE 46  \* "."

\* Code of s[i], 0 (the NUL) past the end of the string.
CodeAt(s, i) == IF i <= Len(s) THEN CharCode(s[i]) ELSE 0
LowerCodeAt(s, i) == IF i <= Len(s) THEN CharCode(tolower(s[i])) ELSE 0

(***************************************************************************)
(* <string.h>: strcmp, strcasecmp, strncpy, strtok_r.                      *)
(***************************************************************************)
RECURSIVE strcmpFrom(_, _, _)
strcmpFrom(a, b, i) ==
  IF CodeAt(a, i) # CodeAt(b, i) THEN CodeAt(a, i) - CodeAt(b, i)
  ELSE IF i > Len(a) THEN 0
  ELSE strcmpFrom(a, b, i + 1)
strcmp(a, b) == strcmpFrom(a, b, 1)

RECURSIVE strcasecmpFrom(_, _, _)
strcasecmpFrom(a, b, i) ==
  IF LowerCodeAt(a, i) # LowerCodeAt(b, i) THEN LowerCodeAt(a, i) - LowerCodeAt(b, i)
  ELSE IF i > Len(a) THEN 0
  ELSE strcasecmpFrom(a, b, i + 1)
strcasecmp(a, b) == strcasecmpFrom(a, b, 1)

\* strncpy(dst, src, n) followed by dst[n] = '\0': the first n characters.
strncpy(src, n) == IF Len(src) <= n THEN src ELSE SubSeq(src, 1, n)

\* The null pointer strtok_r returns; a token is never empty.
NULL == <<>>

RECURSIVE SkipDelims(_)
SkipDelims(s) == IF s # <<>> /\ Head(s) = "," THEN SkipDelims(Tail(s)) ELSE s

RECURSIVE TokenLen(_)
TokenLen(s) == IF s = <<>> \/ Head(s) = "," THEN 0 ELSE 1 + TokenLen(Tail(s))

\* strtok_r(str, ",", &str): skips leading delimiters, returns the run of
\* characters up to the next delimiter, and leaves str after that delimiter.
strtok_r(str) ==
  LET s == SkipDelims(str)
      n == TokenLen(s)
  IN IF s = <<>> THEN [token |-> NULL, rest |-> <<>>]
     ELSE [token |-> SubSeq(s, 1, n),
           rest  |-> IF n < Len(s) THEN SubSeq(s, n + 2, Len(s)) ELSE <<>>]

(***************************************************************************)
(* <stdlib.h>: atoi, atof.  Exponents, hexadecimal, "inf" and "nan" are    *)
(* not part of the model's numeric alphabet.                               *)
(***************************************************************************)
RECURSIVE SkipSpaces(_)
SkipSpaces(s) == IF s # <<>> /\ isspace(Head(s)) THEN SkipSpaces(Tail(s)) ELSE s

RECURSIVE DigitRun(_)
DigitRun(s) == IF s # <<>> /\ isdigit(Head(s)) THEN <<Head(s)>> \o DigitRun(Tail(s)) ELSE <<>>

DigitVal(c) == IndexOf(DigitChars, c) - 1

RECURSIVE DigitsValue(_)
DigitsValue(d) ==
  IF d = <<>> THEN 0 ELSE 10 * DigitsValue(SubSeq(d, 1, Len(d) - 1)) + DigitVal(d[Len(d)])

\* The sign and the unsigned remainder of a numeric text.
SignOf(s) == IF s # <<>> /\ Head(s) = "-" THEN -1 ELSE 1
AfterSign(s) == IF s # <<>> /\ (Head(s) = "-" \/ Head(s) = "+") THEN Tail(s) ELSE s

atoi(str) ==
  LET s == SkipSpaces(str)
  IN SignOf(s) * DigitsValue(DigitRun(AfterSign(s)))

\* Thousandths denoted by the fractional digits f (digits past the third dropped).
FracValue(f) ==
  LET d(i) == IF i <= Len(f) THEN DigitVal(f[i]) ELSE 0
  IN 100 * d(1) + 10 * d(2) + d(3)

\* atof: optional blanks, sign, digits, '.', digits; 0 when no number starts
\* the text.  The value is in thousandths.
atof(str) ==
  LET s    == SkipSpaces(str)
      u    == AfterSign(s)
      ip   == DigitRun(u)
      r    == SubSeq(u, Len(ip) + 1, Len(u))
      fp   == IF r # <<>> /\ Head(r) = "." THEN DigitRun(Tail(r)) ELSE <<>>
  IN IF ip = <<>> /\ fp = <<>> THEN 0
     ELSE SignOf(s) * (Scale * DigitsValue(ip) + FracValue(fp))

(***************************************************************************)
(* <stdio.h>: the conversions %d, %.0f and %.2f of fprintf.                *)
(***************************************************************************)
RECURSIVE NatDigits(_)
NatDigits(n) ==
  IF n < 10 THEN <<DigitChars[n + 1]>>
  ELSE NatDigits(n \div 10) \o <<DigitChars[(n % 10) + 1]>>

\* "%d"
FormatInt(n) == IF n < 0 THEN <<"-">> \o NatDigits(-n) ELSE NatDigits(n)

\* v / unit rounded to the nearest integer, a tie to the even neighbour (the
\* rounding printf applies to the value it is given), for v >= 0.
RoundHalfEven(v, unit) ==
  LET q == v \div unit
      r == v % unit
  IN IF 2 * r > unit THEN q + 1
     ELSE IF 2 * r < unit THEN q
     ELSE IF q % 2 = 0 THEN q ELSE q + 1

\* "%.0f" of a value in thousandths.
FormatF0(v) ==
  IF v < 0 THEN <<"-">> \o NatDigits(RoundHalfEven(-v, Scale))
  ELSE NatDigits(RoundHalfEven(v, Scale))

\* "%.2f" of a value in thousandths.
FormatF2(v) ==
  LET a == IF v < 0 THEN -v ELSE v
      c == RoundHalfEven(a, 10)
      body == NatDigits(c \div 100) \o <<".">>
              \o <<DigitChars[((c \div 10) % 10) + 1], DigitChars[(c % 10) + 1]>>
  IN IF v < 0 THEN <<"-">> \o body ELSE body

(***************************************************************************)
(* The record model: LocationCategory, LocDetails, Vessel (lines 31-54).   *)
(* locationInfo holds the member of the union that locationCat selects.    *)
(***************************************************************************)
LocationCategory == {"SLIP", "LAND", "TRAILOR", "STORAGE"}

Vessel(name, len, cat, info, fees) ==
  [vesselName |-> name, lengthFt |-> len, locationCat |-> cat,
   locationInfo |-> info, outstandingFees |-> fees]

\* The category tokens as C strings.
STR_slip == <<"s","l","i","p">>
STR_land == <<"l","a","n","d">>
STR_trailor == <<"t","r","a","i","l","o","r">>
STR_storage == <<"s","t","o","r","a","g","e">>
STR_unknown == <<"u","n","k","n","o","w","n">>

\* Variant of locationCategoryToStr that spells the trailer token "trailer".
locationCategoryToStr_Respelled(lc) ==
  CASE lc = "SLIP"    -> STR_slip
    [] lc = "LAND"    -> STR_land
    [] lc = "TRAILOR" -> <<"t","r","a","i","l","e","r">>
    [] lc = "STORAGE" -> STR_storage
    [] OTHER          -> STR_unknown

locationCategoryToStr(lc) ==
  CASE lc = "SLIP"    -> STR_slip
    [] lc = "LAND"    -> STR_land
    [] lc = "TRAILOR" -> STR_trailor
    [] lc = "STORAGE" -> STR_storage
    [] OTHER          -> STR_unknown

compareVessels(va, vb) == strcasecmp(va.vesselName, vb.vesselName)

\* Variant of qsort that leaves the array as it is.
qsort_Unsorted(f) == {f}

\* qsort(fleet, n, sizeof(Vessel*), compareVessels): the array is left in
\* some order the comparator accepts; the order of elements that compare
\* equal is unspecified, so every such arrangement is a possible result.
qsort(f) ==
  LET n == Len(f)
      perms == {p \in [1..n -> 1..n] : \A i, j \in 1..n : i # j => p[i] # p[j]}
      sorted(p) == \A i \in 1..n : \A j \in 1..n :
                      i < j => compareVessels(f[p[i]], f[p[j]]) <= 0
  IN {[i \in 1..n |-> f[p[i]]] : p \in {q \in perms : sorted(q)}}

\* The result of splitting one CSV line: ok with the vessel, or the message
\* printed (none during the bulk load).
Parsed(v) == [ok |-> TRUE, msg |-> "", vessel |-> v]
Rejected(m) == [ok |-> FALSE, msg |-> m, vessel |-> <<>>]

\* One iteration of loadData's loop body (lines 167-236): the category is
\* compared with strcmp.
loadLine(line) ==
  LET t1 == strtok_r(line)
      t2 == strtok_r(t1.rest)
      t3 == strtok_r(t2.rest)
      t4 == strtok_r(t3.rest)
      t5 == strtok_r(t4.rest)
      name == strncpy(t1.token, MAX_VESSEL_NAME_LEN - 1)
      len  == atof(t2.token)
      fees == atof(t5.token)
  IN IF t1.token = NULL THEN Rejected("")
     ELSE IF t2.token = NULL THEN Rejected("")
     ELSE IF t3.token = NULL THEN Rejected("")
     ELSE IF strcmp(t3.token, STR_slip) = 0 THEN
            IF t4.token = NULL THEN Rejected("")
            ELSE IF t5.token = NULL THEN Rejected("")
            ELSE Parsed(Vessel(name, len, "SLIP", atoi(t4.token), fees))
     ELSE IF strcmp(t3.token, STR_land) = 0 THEN
            IF t4.token = NULL \/ Len(t4.token) = 0 THEN Rejected("")
            ELSE IF t5.token = NULL THEN Rejected("")
            ELSE Parsed(Vessel(name, len, "LAND", t4.token[1], fees))
     ELSE IF strcmp(t3.token, STR_trailor) = 0 THEN
            IF t4.token = NULL THEN Rejected("")
            ELSE IF t5.token = NULL THEN Rejected("")
            ELSE Parsed(Vessel(name, len, "TRAILOR",
                               strncpy(t4.token, TRAILER_TAG_LEN), fees))
     ELSE IF strcmp(t3.token, STR_storage) = 0 THEN
            IF t4.token = NULL THEN Rejected("")
            ELSE IF t5.token = NULL THEN Rejected("")
            ELSE Parsed(Vessel(name, len, "STORAGE", atoi(t4.token), fees))
     ELSE Rejected("")

\* The messages insertVessel prints.
MSG_Capacity == "Error: Maximum capacity reached."
MSG_InvalidCsv == "Error: Invalid CSV format."
MSG_Incomplete == "Error: Incomplete data."
MSG_UnknownLocation == "Error: Unknown location."
MSG_MissingFee == "Error: Missing fee data."

\* insertVessel's split of csvLine (lines 327-410): the category is compared
\* with strcasecmp.
insertLine(csvLine) ==
  LET t1 == strtok_r(csvLine)
      t2 == strtok_r(t1.rest)
      t3 == strtok_r(t2.rest)
      t4 == strtok_r(t3.rest)
      t5 == strtok_r(t4.rest)
      name == strncpy(t1.token, MAX_VESSEL_NAME_LEN - 1)
      len  == atof(t2.token)
      fees == atof(t5.token)
  IN IF t1.token = NULL THEN Rejected(MSG_InvalidCsv)
     ELSE IF t2.token = NULL THEN Rejected(MSG_InvalidCsv)
     ELSE IF t3.token = NULL THEN Rejected(MSG_InvalidCsv)
     ELSE IF strcasecmp(t3.token, STR_slip) = 0 THEN
            IF t4.token = NULL THEN Rejected(MSG_Incomplete)
            ELSE IF t5.token = NULL THEN Rejected(MSG_MissingFee)
            ELSE Parsed(Vessel(name, len, "SLIP", atoi(t4.token), fees))
     ELSE IF strcasecmp(t3.token, STR_land) = 0 THEN
            IF t4.token = NULL \/ Len(t4.token) = 0 THEN Rejected(MSG_Incomplete)
            ELSE IF t5.token = NULL THEN Rejected(MSG_MissingFee)
            ELSE Parsed(Vessel(name, len, "LAND", t4.token[1], fees))
     ELSE IF strcasecmp(t3.token, STR_trailor) = 0 THEN
            IF t4.token = NULL THEN Rejected(MSG_Incomplete)
            ELSE IF t5.token = NULL THEN Rejected(MSG_MissingFee)
            ELSE Parsed(Vessel(name, len, "TRAILOR",
                               strncpy(t4.token, TRAILER_TAG_LEN), fees))
     ELSE IF strcasecmp(t3.token, STR_storage) = 0 THEN
            IF t4.token = NULL THEN Rejected(MSG_Incomplete)
            ELSE IF t5.token = NULL THEN Rejected(MSG_MissingFee)
            ELSE Parsed(Vessel(name, len, "STORAGE", atoi(t4.token), fees))
     ELSE Rejected(MSG_UnknownLocation)

\* Variant of loadLoop that leaves the loop at the first line it cannot parse.
RECURSIVE loadLoop_StopAtBadLine(_, _)
loadLoop_StopAtBadLine(lines, acc) ==
  IF lines = <<>> \/ ~(Len(acc) < MAX_VESSELS) THEN acc
  ELSE LET r == loadLine(Head(lines))
       IN IF r.ok THEN loadLoop_StopAtBadLine(Tail(lines), Append(acc, r.vessel))
          ELSE acc

\* loadData's while loop (lines 158-240): the lines are read in order while
\* fewer than MAX_VESSELS vessels are held; a line that does not parse is
\* skipped.  The result is the array before the final qsort.
RECURSIVE loadLoop(_, _)
loadLoop(lines, acc) ==
  IF lines = <<>> \/ ~(Len(acc) < MAX_VESSELS) THEN acc
  ELSE LET r == loadLine(Head(lines))
       IN loadLoop(Tail(lines), IF r.ok THEN Append(acc, r.vessel) ELSE acc)

\* The line saveData writes for one vessel (lines 259-279), without the '\n'.
formatVessel(v) ==
  v.vesselName \o <<",">> \o FormatF0(v.lengthFt) \o <<",">>
  \o locationCategoryToStr(v.locationCat) \o <<",">>
  \o (CASE v.locationCat = "SLIP"    -> FormatInt(v.locationInfo)
        [] v.locationCat = "LAND"    -> <<v.locationInfo>>
        [] v.locationCat = "TRAILOR" -> v.locationInfo
        [] v.locationCat = "STORAGE" -> FormatInt(v.locationInfo)
        [] OTHER -> <<>>)
  \o <<",">> \o FormatF2(v.outstandingFees)

\* Variant of locateVesselByName that returns the last match.
locateVesselByName_Last(f, totalCount, searchName) ==
  LET hits == {i \in 1..totalCount : strcasecmp(f[i].vesselName, searchName) = 0}
  IN IF hits = {} THEN -1 ELSE CHOOSE i \in hits : \A j \in hits : i >= j

\* locateVesselByName (lines 515-523): the first index whose name matches
\* without regard to case, -1 when there is none.  Indices are 1-based here.
locateVesselByName(f, totalCount, searchName) ==
  LET hits == {i \in 1..totalCount : strcasecmp(f[i].vesselName, searchName) = 0}
  IN IF hits = {} THEN -1 ELSE CHOOSE i \in hits : \A j \in hits : i <= j

\* Variant of monthlyRate with the slip and land rates exchanged.
monthlyRate_Swapped(lc) ==
  CASE lc = "SLIP"    -> RATE_LAND
    [] lc = "LAND"    -> RATE_SLIP
    [] lc = "TRAILOR" -> RATE_TRAILER
    [] lc = "STORAGE" -> RATE_STORAGE
    [] OTHER          -> 0

\* The rate applyMonthlyFees multiplies the length by (lines 479-492).
monthlyRate(lc) ==
  CASE lc = "SLIP"    -> RATE_SLIP
    [] lc = "LAND"    -> RATE_LAND
    [] lc = "TRAILOR" -> RATE_TRAILER
    [] lc = "STORAGE" -> RATE_STORAGE
    [] OTHER          -> 0

\* monthlyCharge = v->lengthFt * RATE, in thousandths.
monthlyCharge(v) == (v.lengthFt * monthlyRate(v.locationCat)) \div Scale

(***************************************************************************)
(* The inputs of the model: the text lines of the data file and of the     *)
(* operator's answers.                                                     *)
(***************************************************************************)
RECURSIVE JoinFields(_)
JoinFields(fields) ==
  IF Len(fields) = 0 THEN <<>>
  ELSE IF Len(fields) = 1 THEN fields[1]
  ELSE fields[1] \o <<",">> \o JoinFields(Tail(fields))

LINE_Ab    == JoinFields(<< <<"A","b">>, <<"3","0">>, STR_slip, <<"5">>, <<"1",".","0","0">> >>)
LINE_ab    == JoinFields(<< <<"a","b">>, <<"1","0">>, STR_land, <<"B">>, <<"0">> >>)
LINE_Slip  == JoinFields(<< <<"b">>, <<"2",".","5">>, <<"S","l","i","p">>, <<"7">>,
                            <<"0",".","5","6","7">> >>)
LINE_dock  == JoinFields(<< <<"C">>, <<"1","0">>, <<"d","o","c","k">>, <<"1">>, <<"0">> >>)
LINE_noName == JoinFields(<< <<>>, <<"z">>, <<"1","0">>, STR_slip, <<"5">>, <<"0">> >>)
LINE_empty == <<>>
LINE_badLen == JoinFields(<< <<"B">>, <<"x">>, STR_storage, <<"3">>, <<"2">> >>)
LINE_short == JoinFields(<< <<"c">>, <<"1","0">>, STR_slip >>)
LINE_trailer == JoinFields(<< <<"c">>, <<"1","0">>, STR_trailor,
                              <<"T","A","G","0","1","2","3","4","5","6">>,
                              <<"0",".","1","2","5">>, <<"x">> >>)

\* The lines the operator may type after choosing A.
AddLines == {LINE_Ab, LINE_ab, LINE_Slip, LINE_dock, LINE_noName, LINE_empty,
             LINE_badLen, LINE_short, LINE_trailer}

\* The data files: windows of every length up to MAX_VESSELS + MaxFileExtra
\* of the repeated pattern below, from every offset.
FilePattern == <<LINE_Ab, LINE_ab, LINE_noName, LINE_dock, LINE_Slip>>
FileWindow(n, k) == [i \in 1..n |-> FilePattern[((i + k - 1) % Len(FilePattern)) + 1]]
Files == {FileWindow(n, k) : n \in 0..(MAX_VESSELS + MaxFileExtra),
                             k \in 0..(Len(FilePattern) - 1)}

\* The names typed for R and P, and the amounts typed for P.
Names == {<<"A","B">>, <<"b">>, <<"z">>}
Amounts == {<<"1",".","0","0">>, <<"0",".","5">>, <<"3","7","6">>}

(***************************************************************************)
(* The state.                                                              *)
(*   file          the data file: whether fopen succeeds, and its lines    *)
(*   fleet         fleet[0..totalVessels-1] of main, as a sequence         *)
(*   totalVessels  main's counter                                          *)
(*   userChoice    the command letter last read by main's loop             *)
(*   consumed      the lines the last command read from stdin after the    *)
(*                 command letter                                          *)
(*   output        the message the last command printed ("" for none)      *)
(*   commands      how many commands were read                             *)
(*   pc            "load", "menu" (the do-while loop), "done"              *)
(* stdin delivers a line to every read of the session.                     *)
(***************************************************************************)
VARIABLES pc, file, fleet, totalVessels, userChoice, consumed, output, commands

vars == <<pc, file, fleet, totalVessels, userChoice, consumed, output, commands>>

MSG_NoBoat == "No boat with that name"
MSG_TooMuch == "That is more than the amount owed"
MSG_Invalid == "Invalid option"
MSG_LoadWarning == "Warning: Could not open file for reading."
MSG_SaveError == "Error: Could not open file for writing."
MSG_Inventory == "inventory"

Init ==
  /\ pc = "load"
  /\ \E readable \in BOOLEAN : \E lines \in Files :
        /\ (~readable => lines = <<>>)
        /\ file = [readable |-> readable, lines |-> lines]
  /\ fleet = <<>>
  /\ totalVessels = 0
  /\ userChoice = ""
  /\ consumed = <<>>
  /\ output = ""
  /\ commands = 0

\* loadData (lines 147-245), called once by main before the menu loop.
loadData ==
  /\ pc = "load"
  /\ pc' = "menu"
  /\ IF ~file.readable
       THEN /\ output' = MSG_LoadWarning
            /\ UNCHANGED <<fleet, totalVessels>>
       ELSE LET loaded == loadLoop(file.lines, <<>>)
            IN /\ totalVessels' = Len(loaded)
               /\ \E g \in qsort(loaded) : fleet' = g
               /\ output' = ""
  /\ UNCHANGED <<file, userChoice, consumed, commands>>

\* The first character of the line typed at the menu prompt.
Keys == {"i", "A", "r", "P", "m", "x", "X", "?"}

\* main's loop (lines 88-93) reads a line and switches on
\* userChoice = toupper(inputBuffer[0]); `letter` is the case label taken.
ReadCommand(typed, letter) ==
  /\ pc = "menu"
  /\ toupper(typed) = letter
  /\ commands < MaxCommands
  /\ commands' = commands + 1
  /\ userChoice' = toupper(typed)
  /\ UNCHANGED <<pc, file>>

\* case 'I': listAllVessels (lines 286-309) prints and changes nothing.
listAllVessels(typed) ==
  /\ ReadCommand(typed, "I")
  /\ consumed' = <<>>
  /\ output' = MSG_Inventory
  /\ UNCHANGED <<fleet, totalVessels>>

\* Variant of capacityReached with > in place of >=.
capacityReached_OffByOne(totalCount) == totalCount > MAX_VESSELS

\* if (*totalCount >= MAX_VESSELS) (line 316).
capacityReached(totalCount) == totalCount >= MAX_VESSELS

\* case 'A': insertVessel (lines 314-416) on the line typed.
insertVessel(typed, csvLine) ==
  /\ ReadCommand(typed, "A")
  /\ consumed' = <<csvLine>>
  /\ IF capacityReached(totalVessels)
       THEN /\ output' = MSG_Capacity
            /\ UNCHANGED <<fleet, totalVessels>>
       ELSE LET r == insertLine(csvLine)
            IN IF ~r.ok
                 THEN /\ output' = r.msg
                      /\ UNCHANGED <<fleet, totalVessels>>
                 ELSE /\ totalVessels' = totalVessels + 1
                      /\ \E g \in qsort(Append(fleet, r.vessel)) : fleet' = g
                      /\ output' = ""

\* Variant of shiftLeft whose loop starts one entry too late.
shiftLeft_DropLast(f, totalCount, idx) ==
  [i \in 1..(totalCount - 1) |-> IF i <= idx THEN f[i] ELSE f[i + 1]]

\* fleet with entry idx deleted and the later entries shifted left (lines 434-436).
shiftLeft(f, totalCount, idx) ==
  [i \in 1..(totalCount - 1) |-> IF i < idx THEN f[i] ELSE f[i + 1]]

\* case 'R': removeVessel (lines 421-439) on the name typed.
removeVessel(typed, targetName) ==
  /\ ReadCommand(typed, "R")
  /\ consumed' = <<targetName>>
  /\ LET idx == locateVesselByName(fleet, totalVessels, targetName)
     IN IF idx = -1
          THEN /\ output' = MSG_NoBoat
               /\ UNCHANGED <<fleet, totalVessels>>
          ELSE /\ fleet' = shiftLeft(fleet, totalVessels, idx)
               /\ totalVessels' = totalVessels - 1
               /\ output' = ""

\* Variant of exceedsBalance with > in place of >=.
exceedsBalance_Strict(amount, owed) == amount > owed

\* if (amount >= fleet[index]->outstandingFees) (line 461).
exceedsBalance(amount, owed) == amount >= owed

\* case 'P': recordPayment (lines 444-469).  The amount is read only when
\* the name is found.
recordPayment(typed, inputName, buf) ==
  /\ ReadCommand(typed, "P")
  /\ LET index == locateVesselByName(fleet, totalVessels, inputName)
         amount == atof(buf)
     IN IF index = -1
          THEN /\ consumed' = <<inputName>>
               /\ output' = MSG_NoBoat
               /\ UNCHANGED fleet
          ELSE /\ consumed' = <<inputName, buf>>
               /\ IF exceedsBalance(amount, fleet[index].outstandingFees)
                    THEN /\ output' = MSG_TooMuch
                         /\ UNCHANGED fleet
                    ELSE /\ fleet' = [fleet EXCEPT ![index].outstandingFees = @ - amount]
                         /\ output' = ""
  /\ UNCHANGED totalVessels

\* case 'M': applyMonthlyFees (lines 474-496).
applyMonthlyFees(typed) ==
  /\ ReadCommand(typed, "M")
  /\ consumed' = <<>>
  /\ fleet' = [i \in 1..totalVessels |->
                 [fleet[i] EXCEPT !.outstandingFees = @ + monthlyCharge(fleet[i])]]
  /\ output' = ""
  /\ UNCHANGED totalVessels

\* default: any other first character.
invalidOption(typed) ==
  /\ toupper(typed) \notin {"I", "A", "R", "P", "M", "X"}
  /\ ReadCommand(typed, toupper(typed))
  /\ consumed' = <<>>
  /\ output' = MSG_Invalid
  /\ UNCHANGED <<fleet, totalVessels>>

\* The file saveData writes (lines 258-280).
savedLines(f, totalCount) == [i \in 1..totalCount |-> formatVessel(f[i])]

\* case 'X': the loop ends and saveData (lines 250-283) rewrites the file,
\* unless it cannot be opened for writing.
exitAndSave(typed) ==
  /\ pc = "menu"
  /\ toupper(typed) = "X"
  /\ pc' = "done"
  /\ userChoice' = toupper(typed)
  /\ consumed' = <<>>
  /\ \E writable \in BOOLEAN :
        IF writable
          THEN /\ file' = [readable |-> TRUE, lines |-> savedLines(fleet, totalVessels)]
               /\ output' = ""
          ELSE /\ file' = file
               /\ output' = MSG_SaveError
  /\ UNCHANGED <<fleet, totalVessels, commands>>

Next ==
  \/ loadData
  \/ \E typed \in Keys : listAllVessels(typed)
  \/ \E typed \in Keys : \E csvLine \in AddLines : insertVessel(typed, csvLine)
  \/ \E typed \in Keys : \E targetName \in Names : removeVessel(typed, targetName)
  \/ \E typed \in Keys : \E inputName \in Names : \E buf \in Amounts :
        recordPayment(typed, inputName, buf)
  \/ \E typed \in Keys : applyMonthlyFees(typed)
  \/ \E typed \in Keys : invalidOption(typed)
  \/ \E typed \in Keys : exitAndSave(typed)

Spec == Init /\ [][Next]_vars

(***************************************************************************)
(* Vocabulary of the properties, stated without the program's operators.   *)
(***************************************************************************)
Lowered(str) == [i \in 1..Len(str) |-> tolower(str[i])]

SameNameIgnoringCase(a, b) == Lowered(a) = Lowered(b)

\* a <= b in the lexicographic order of the character codes.
LexLeq(a, b) ==
  \/ /\ Len(a) <= Len(b)
     /\ \A i \in 1..Len(a) : a[i] = b[i]
  \/ \E k \in 1..Len(a) :
       /\ k <= Len(b)
       /\ \A i \in 1..(k - 1) : a[i] = b[i]
       /\ CharCode(a[k]) < CharCode(b[k])

NameOrdered(f) ==
  \A i \in 1..(Len(f) - 1) :
     LexLeq(Lowered(f[i].vesselName), Lowered(f[i + 1].vesselName))

\* The first position of f whose name is `name` without regard to case, 0 if none.
FirstMatch(f, name) ==
  IF \E i \in 1..Len(f) : SameNameIgnoringCase(f[i].vesselName, name)
    THEN CHOOSE i \in 1..Len(f) :
           /\ SameNameIgnoringCase(f[i].vesselName, name)
           /\ \A j \in 1..(i - 1) : ~SameNameIgnoringCase(f[j].vesselName, name)
    ELSE 0

\* f without its k-th entry.
Without(f, k) == SubSeq(f, 1, k - 1) \o SubSeq(f, k + 1, Len(f))

\* The step that reads command letter c from the menu.
CommandStep(c) == commands' = commands + 1 /\ userChoice' = c

FleetUnchanged == fleet' = fleet /\ totalVessels' = totalVessels

\* The comma-separated fields of a line by position, empty fields kept.
RECURSIVE Fields(_)
Fields(line) ==
  LET n == TokenLen(line)
  IN IF n = Len(line) THEN <<line>>
     ELSE <<SubSeq(line, 1, n)>> \o Fields(SubSeq(line, n + 2, Len(line)))

KnownTokens == {STR_slip, STR_land, STR_trailor, STR_storage}

\* A line with at least five fields of which the first five are not empty.
Valid5(line) ==
  LET f == Fields(line)
  IN Len(f) >= 5 /\ \A i \in 1..5 : f[i] # <<>>

\* A line whose name, length and category fields are present and whose
\* category is none of the four tokens in any letter case.
UnknownCategory(line) ==
  LET f == Fields(line)
  IN /\ Len(f) >= 3
     /\ \A i \in 1..3 : f[i] # <<>>
     /\ Lowered(f[3]) \notin KnownTokens

FirstFieldEmpty(line) == Fields(line)[1] = <<>>

\* a and b hold the same entries, each as often.
IsPermutation(a, b) ==
  /\ Len(a) = Len(b)
  /\ \E p \in [1..Len(a) -> 1..Len(a)] :
        /\ \A i, j \in 1..Len(a) : i # j => p[i] # p[j]
        /\ \A i \in 1..Len(a) : a[i] = b[p[i]]

\* The first MAX_VESSELS entries of a sequence.
UpToCapacity(q) == SubSeq(q, 1, IF Len(q) < MAX_VESSELS THEN Len(q) ELSE MAX_VESSELS)

\* The state right after a bulk load that opened the file.
JustLoaded == pc = "menu" /\ commands = 0 /\ file.readable

\* The state right after an insert that added its vessel.
JustInserted == userChoice = "A" /\ output = "" /\ Len(consumed) = 1

\* The rates of the specification, in thousandths of a dollar per foot.
SpecRate(cat) ==
  CASE cat = "SLIP"    -> 12500
    [] cat = "LAND"    -> 14000
    [] cat = "TRAILOR" -> 25000
    [] cat = "STORAGE" -> 11200

(***************************************************************************)
(* C1: after the bulk load and after every command, the fleet is           *)
(* non-decreasing in case-insensitive vessel name.                         *)
(***************************************************************************)
C1_FleetSortedByName == Len(fleet) = totalVessels /\ NameOrdered(fleet)

\* A removal has acted on a fleet that still holds two different names.
C1_Witness ==
  /\ userChoice = "R" /\ output = "" /\ totalVessels >= 2
  /\ ~SameNameIgnoringCase(fleet[1].vesselName, fleet[totalVessels].vesselName)

(***************************************************************************)
(* C2: the fleet never holds more than MAX_VESSELS vessels; an insert into *)
(* a full fleet prints the capacity error and changes no entry; the bulk   *)
(* load of more parsable lines than MAX_VESSELS stops at MAX_VESSELS.      *)
(***************************************************************************)
C2_CapacityBound ==
  /\ [](totalVessels <= MAX_VESSELS /\ Len(fleet) = totalVessels)
  /\ [][(CommandStep("A") /\ totalVessels = MAX_VESSELS)
          => (FleetUnchanged /\ output' = MSG_Capacity)]_vars

\* The file held more parsable lines than the capacity, the load stopped at
\* the capacity, and an insert was then refused.
C2_Witness ==
  /\ userChoice = "A" /\ output = MSG_Capacity /\ totalVessels = MAX_VESSELS
  /\ file.readable
  /\ Cardinality({i \in 1..Len(file.lines) : loadLine(file.lines[i]).ok}) > MAX_VESSELS

C4_PaymentReducesFirstMatch ==
  [][CommandStep("P") =>
      LET k == FirstMatch(fleet, consumed'[1])
      IN IF k = 0
           THEN FleetUnchanged /\ output' = MSG_NoBoat
           ELSE (Len(consumed') = 2 /\ atof(consumed'[2]) < fleet[k].outstandingFees)
                => /\ fleet' = [fleet EXCEPT ![k].outstandingFees = @ - atof(consumed'[2])]
                   /\ totalVessels' = totalVessels
                   /\ output' = ""]_vars

\* A payment was accepted on the first of two vessels of the same name.
C4_Witness ==
  /\ userChoice = "P" /\ output = "" /\ Len(consumed) = 2
  /\ \E i \in 1..totalVessels : \E j \in 1..totalVessels :
        /\ i < j
        /\ SameNameIgnoringCase(fleet[i].vesselName, consumed[1])
        /\ SameNameIgnoringCase(fleet[j].vesselName, consumed[1])

(***************************************************************************)
(* C5: the monthly billing adds lengthFt * rate(locationCat) to every      *)
(* vessel's balance (a 30-foot slip vessel gains 375.00) and changes       *)
(* nothing else; each further run adds the charge again.                   *)
(***************************************************************************)
C5_MonthlyFees ==
  [][CommandStep("M") =>
      /\ totalVessels' = totalVessels
      /\ Len(fleet') = Len(fleet)
      /\ \A i \in 1..Len(fleet) :
            /\ fleet'[i] = [fleet[i] EXCEPT !.outstandingFees =
                   @ + (fleet[i].lengthFt * SpecRate(fleet[i].locationCat)) \div 1000]
            /\ (fleet[i].locationCat = "SLIP" /\ fleet[i].lengthFt = 30000)
                 => fleet'[i].outstandingFees = fleet[i].outstandingFees + 375000]_vars

\* The 30-foot slip vessel loaded with a balance of 1.00 was billed twice.
C5_Witness ==
  /\ userChoice = "M" /\ commands = 2
  /\ \E i \in 1..totalVessels :
        /\ fleet[i].locationCat = "SLIP" /\ fleet[i].lengthFt = 30000
        /\ fleet[i].outstandingFees = 1000 + 2 * 375000

(***************************************************************************)
(* C7: removing by name deletes exactly the first matching vessel and      *)
(* keeps the others and their order; with no match it reports NotFound     *)
(* and changes nothing.                                                    *)
(***************************************************************************)
C7_RemoveFirstMatch ==
  [][CommandStep("R") =>
      LET k == FirstMatch(fleet, consumed'[1])
      IN IF k = 0
           THEN FleetUnchanged /\ output' = MSG_NoBoat
           ELSE /\ fleet' = Without(fleet, k)
                /\ totalVessels' = totalVessels - 1
                /\ output' = ""]_vars

\* A removal took one of two vessels of the same name and left the other.
C7_Witness ==
  /\ userChoice = "R" /\ output = "" /\ totalVessels >= 2
  /\ \E i \in 1..totalVessels : SameNameIgnoringCase(fleet[i].vesselName, consumed[1])

(***************************************************************************)
(* C6: the category is matched without regard to case on every path: the   *)
(* bulk load keeps exactly the lines the interactive add accepts, with the *)
(* same vessels.                                                           *)
(***************************************************************************)
AcceptedIgnoringCase(line) == insertLine(line).ok

C6_LoadMatchesIgnoringCase ==
  JustLoaded =>
    LET kept == UpToCapacity(SelectSeq(file.lines, AcceptedIgnoringCase))
    IN IsPermutation(fleet, [i \in 1..Len(kept) |-> insertLine(kept[i]).vessel])

(***************************************************************************)
(* C8: a line with an unknown category adds no vessel: the bulk load skips *)
(* it and goes on with the following lines, so the fleet is the first      *)
(* MAX_VESSELS parsed lines; the interactive add is refused and leaves the *)
(* fleet unchanged.                                                        *)
(***************************************************************************)
KeptByLoad(line) == ~UnknownCategory(line) /\ loadLine(line).ok

C9_RoundTripExact ==
  (JustInserted /\ Valid5(consumed[1])) =>
    LET v == insertLine(consumed[1]).vessel
        fin == Fields(consumed[1])
        fout == Fields(formatVessel(v))
    IN /\ \E i \in 1..totalVessels : fleet[i] = v
       /\ fout[3] = fin[3]
       /\ atof(fout[5]) = atof(fin[5])

(***************************************************************************)
(* C9 as amended: the written line carries the input's category token in   *)
(* lower case and the input's fee rounded to two decimals, which is the    *)
(* input's fee when that has no more than two decimals.                    *)
(***************************************************************************)
C9_RoundTripCanonical ==
  (JustInserted /\ Valid5(consumed[1])) =>
    LET v == insertLine(consumed[1]).vessel
        fin == Fields(consumed[1])
        fout == Fields(formatVessel(v))
        feeIn == atof(fin[5])
        feeOut == atof(fout[5])
    IN /\ \E i \in 1..totalVessels : fleet[i] = v
       /\ Len(fout) = 5
       /\ fout[3] = Lowered(fin[3])
       /\ fout[3] \in KnownTokens
       /\ feeOut % 10 = 0
       /\ feeOut - feeIn <= 5 /\ feeIn - feeOut <= 5
       /\ (feeIn % 10 = 0 => feeOut = feeIn)

\* A valid line with a capitalised category and a fee of three decimals
\* was inserted.
C9_Witness ==
  /\ JustInserted /\ Valid5(consumed[1])
  /\ Fields(consumed[1])[3] # Lowered(Fields(consumed[1])[3])
  /\ atof(Fields(consumed[1])[5]) % 10 # 0

(***************************************************************************)
(* C10: a line whose first field is empty or missing never becomes a       *)
(* vessel, whatever follows it: the bulk load keeps only lines with a      *)
(* name field, and the interactive add leaves the fleet unchanged.         *)
(***************************************************************************)
NamedAndParsed(line) == ~FirstFieldEmpty(line) /\ loadLine(line).ok

C10_EmptyNameRejected ==
  /\ [](JustLoaded =>
          LET kept == UpToCapacity(SelectSeq(file.lines, NamedAndParsed))
          IN IsPermutation(fleet, [i \in 1..Len(kept) |-> loadLine(kept[i]).vessel]))
  /\ [][(CommandStep("A") /\ FirstFieldEmpty(consumed'[1])) => FleetUnchanged]_vars

====
